---------------------------- MODULE Spec2Model ----------------------------
(***************************************************************************)
(* A model of src/src/canvas.tsx: the Canvas component of canvas-sandbox.  *)
(*                                                                         *)
(* The component is a React function component.  Its state lives in seven  *)
(* useState hooks.  An event handler is a closure of the latest render: it *)
(* reads the hook values of that render and queues state updates; a render *)
(* applies the queued updates in order and, when the stroke list was set,  *)
(* runs the effect that repaints the canvas.  Updates queued by discrete   *)
(* events (mousedown, mouseup, touchstart, touchend, click, change) are    *)
(* rendered before the handler's event ends; updates queued by continuous  *)
(* events (mousemove, touchmove, mouseleave) and by the FileReader         *)
(* callback wait for the next render, which may come after further events. *)
(***************************************************************************)
EXTENDS Integers, Sequences, FiniteSets, TLC

\* ------------------------------------------------------------- bounds
\* Pointer coordinates range over the grid 0..MaxCoord x 0..MaxCoord.
MaxCoord == 1
\* At most MaxPending handlers' updates wait for a render.
MaxPending == 2
\* A run handles at most MaxEvents input events.
MaxEvents == 4

Coord == 0..MaxCoord
Point(x, y) == [x |-> x, y |-> y]
Points == {Point(x, y) : x \in Coord, y \in Coord}

\* The values of the color input.
Colors == {"#cdecde", "#ff0000"}

\* useState<number | null>(null): the null of draggedStrokeIndex.
NoIndex == -1
\* useState<Point | null>(null): the null of dragOffset.
NoOffset == [null |-> TRUE]
\* The canvas before anything is drawn on it / after clearRect.
NoSegment == [null |-> TRUE]

VARIABLES
    isDrawing,          \* useState(false)
    strokes,            \* useState<Stroke[]>([])
    currentStroke,      \* useState<Point[]>([])
    fillColor,          \* useState("#cdecde")
    isDragging,         \* useState(false)
    draggedStrokeIndex, \* useState<number | null>(null), 0-based
    dragOffset,         \* useState<Point | null>(null)
    pending,            \* queued updates, one sequence of setter calls per handler
    canvas,             \* what the canvas element shows
    surface,            \* "ok" | "noctx" | "nocanvas": canvasRef.current / getContext
    saved,              \* the text of the last downloaded drawing.draw, <<>> if none
    savedStrokes,       \* history: the stroke list that text was made from
    load,               \* the load in flight: FileReader, then Image
    mounted,            \* FALSE once an uncaught error has unmounted the component
    events              \* the number of input events handled so far

vars == <<isDrawing, strokes, currentStroke, fillColor, isDragging,
          draggedStrokeIndex, dragOffset, pending, canvas, surface,
          saved, savedStrokes, load, mounted, events>>

hookVars == <<isDrawing, strokes, currentStroke, fillColor, isDragging,
           draggedStrokeIndex, dragOffset>>

\* ------------------------------------------------------------- geometry
Min(a, b) == IF a <= b THEN a ELSE b
Max(a, b) == IF a >= b THEN a ELSE b

\* > 0 when p is left of the directed line a -> b, 0 when on it.
IsLeft(a, b, p) == (b.x - a.x) * (p.y - a.y) - (p.x - a.x) * (b.y - a.y)

OnSegment(a, b, p) ==
    /\ IsLeft(a, b, p) = 0
    /\ Min(a.x, b.x) <= p.x /\ p.x <= Max(a.x, b.x)
    /\ Min(a.y, b.y) <= p.y /\ p.y <= Max(a.y, b.y)

\* The contribution of edge a -> b to the winding number around p.
EdgeWinding(a, b, p) ==
    IF a.y <= p.y /\ p.y < b.y /\ IsLeft(a, b, p) > 0 THEN 1
    ELSE IF b.y <= p.y /\ p.y < a.y /\ IsLeft(a, b, p) < 0 THEN -1
    ELSE 0

RECURSIVE SumTo(_, _)
SumTo(f, n) == IF n = 0 THEN 0 ELSE f[n] + SumTo(f, n - 1)

\* ctx.isPointInPath(x, y) on the path moveTo(p1), lineTo(p2..pn), closePath():
\* the nonzero winding rule, points on the path itself counting as inside; a
\* subpath of fewer than two points encloses nothing.
IsPointInPath(path, p) ==
    LET n == Len(path)
        nxt(i) == IF i = n THEN 1 ELSE i + 1
    IN  /\ n >= 2
        /\ \/ \E i \in 1..n : OnSegment(path[i], path[nxt(i)], p)
           \/ SumTo([i \in 1..n |-> EdgeWinding(path[i], path[nxt(i)], p)], n) # 0

\* A hit test that never looks for the context.
IsInsideStrokeAnyway(path, x, y, surf) == IsPointInPath(path, Point(x, y))

\* isInsideStroke: no hit without a 2D context.
IsInsideStroke(path, x, y, surf) ==
    IF surf # "ok" THEN FALSE ELSE IsPointInPath(path, Point(x, y))

\* points.map(p => ({x: p.x + position.x, y: p.y + position.y}))
Shift(points, position) ==
    [i \in 1..Len(points) |->
        Point(points[i].x + position.x, points[i].y + position.y)]

\* The 0-based indices of the strokes of list that contain (x, y).
HitIndices(list, x, y, surf) ==
    {i \in 0..(Len(list) - 1) :
        IsInsideStroke(Shift(list[i + 1].points, list[i + 1].position), x, y, surf)}

\* A scan from the first stroke up: the bottommost hit wins.
FirstHitIndex(list, x, y, surf) ==
    LET hits == HitIndices(list, x, y, surf)
    IN  IF hits = {} THEN NoIndex
        ELSE CHOOSE i \in hits : \A j \in hits : i <= j

\* findClickedStrokeIndex: scans from the last stroke down, the first hit wins.
FindClickedStrokeIndex(list, x, y, surf) ==
    LET hits == HitIndices(list, x, y, surf)
    IN  IF hits = {} THEN NoIndex
        ELSE CHOOSE i \in hits : \A j \in hits : i >= j

\* The closure threshold of isClosedPath, in pixels.
CloseThreshold == 10

Abs(n) == IF n < 0 THEN -n ELSE n

\* The whole part of Math.hypot(dx, dy): the k with k^2 <= dx^2 + dy^2 < (k+1)^2.
HypotFloor(dx, dy) ==
    LET n == dx * dx + dy * dy
    IN  CHOOSE k \in 0..(Abs(dx) + Abs(dy)) : k * k <= n /\ n < (k + 1) * (k + 1)

\* A closure test that takes a gap of exactly the threshold for closed.
IsClosedPathInclusive(stroke) ==
    IF Len(stroke) < 2 THEN FALSE
    ELSE LET start == stroke[1]
             end == stroke[Len(stroke)]
         IN  HypotFloor(end.x - start.x, end.y - start.y) <= CloseThreshold

\* isClosedPath: Math.hypot(end.x - start.x, end.y - start.y) < 10.  The
\* threshold being whole, hypot is below it iff its whole part is.
IsClosedPath(stroke) ==
    IF Len(stroke) < 2 THEN FALSE
    ELSE LET start == stroke[1]
             end == stroke[Len(stroke)]
         IN  HypotFloor(end.x - start.x, end.y - start.y) < CloseThreshold


\* ------------------------------------------------------------- canvas
\* context.clearRect(0, 0, canvas.width, canvas.height)
ClearRect(c) == [bg |-> "blank", drawn |-> <<>>, lastSeg |-> NoSegment]

\* context.drawImage(img, 0, 0, canvas.width, canvas.height)
DrawImage(c, img) == [c EXCEPT !.bg = img]

\* What strokes.forEach paints: each stroke's outline along points + position,
\* filled with its color when isClosedPath(points).
Paint(list) ==
    [i \in 1..Len(list) |->
        [path |-> Shift(list[i].points, list[i].position),
         fill |-> IF IsClosedPath(list[i].points) THEN list[i].color ELSE "none"]]

\* redrawCanvas with the stroke list of its closure.
RedrawCanvas(c, list, surf) ==
    IF surf # "ok" THEN c
    ELSE [ClearRect(c) EXCEPT !.drawn = Paint(list)]

\* canvas.toDataURL("image/png"): the raster, as an opaque image.
ToDataURL(c) == "data:image/png"

\* ------------------------------------------------------------- state updates
\* The hook values of the latest render, as the handlers' closures see them.
\* While updates are applied, strokesSet records that the stroke list got a new
\* identity, undef that it was set to undefined, threw that an updater was
\* called on undefined.
Hooks ==
    [isDrawing |-> isDrawing, strokes |-> strokes, currentStroke |-> currentStroke,
     fillColor |-> fillColor, isDragging |-> isDragging,
     draggedStrokeIndex |-> draggedStrokeIndex, dragOffset |-> dragOffset,
     strokesSet |-> FALSE, undef |-> FALSE, threw |-> FALSE]

\* A reposition that forgets the index test and moves every stroke.
RepositionEveryStroke(prev, index, newPosition) ==
    [i \in 1..Len(prev) |-> [prev[i] EXCEPT !.position = newPosition]]

\* setStrokes(prev => prev.map((stroke, index) =>
\*     index === draggedStrokeIndex ? {...stroke, position: newPosition} : stroke))
RepositionStroke(prev, index, newPosition) ==
    [i \in 1..Len(prev) |->
        IF i - 1 = index THEN [prev[i] EXCEPT !.position = newPosition]
        ELSE prev[i]]

\* A commit that places the stroke at the point where the pointer was released.
CommitStrokeAtRelease(prev, points, color) ==
    Append(prev, [points |-> points, color |-> color,
                  position |-> points[Len(points)]])

\* setStrokes(prev => [...prev, {points, color, position: {x: 0, y: 0}}])
CommitStroke(prev, points, color) ==
    Append(prev, [points |-> points, color |-> color, position |-> Point(0, 0)])

\* An undo that drops the first stroke, prev.slice(1).
UndoFirstStroke(prev) == IF Len(prev) = 0 THEN <<>> ELSE Tail(prev)

\* setStrokes(prev => prev.slice(0, -1))
UndoStroke(prev) ==
    IF Len(prev) = 0 THEN <<>> ELSE SubSeq(prev, 1, Len(prev) - 1)

\* An updater of the stroke list applied to the hook values s.
UpdateStrokes(s, list) ==
    IF s.undef THEN [s EXCEPT !.threw = TRUE]
    ELSE [s EXCEPT !.strokes = list, !.strokesSet = TRUE]

\* One setter call applied to the hook values s.
Apply(s, u) ==
    CASE u.set = "isDrawing" -> [s EXCEPT !.isDrawing = u.val]
      [] u.set = "isDragging" -> [s EXCEPT !.isDragging = u.val]
      [] u.set = "draggedStrokeIndex" -> [s EXCEPT !.draggedStrokeIndex = u.val]
      [] u.set = "dragOffset" -> [s EXCEPT !.dragOffset = u.val]
      [] u.set = "fillColor" -> [s EXCEPT !.fillColor = u.val]
      [] u.set = "currentStroke" -> [s EXCEPT !.currentStroke = u.val]
      [] u.set = "currentStroke.append" ->
            [s EXCEPT !.currentStroke = Append(s.currentStroke, u.val)]
      [] u.set = "strokes.map" ->
            UpdateStrokes(s, RepositionStroke(s.strokes, u.index, u.val))
      [] u.set = "strokes.append" ->
            UpdateStrokes(s, CommitStroke(s.strokes, u.points, u.color))
      [] u.set = "strokes.slice" -> UpdateStrokes(s, UndoStroke(s.strokes))
      [] u.set = "strokes" ->
            [s EXCEPT !.strokes = IF u.isList THEN u.val ELSE <<>>,
                      !.undef = ~u.isList, !.strokesSet = TRUE]

RECURSIVE ApplyAll(_, _)
ApplyAll(s, us) ==
    IF us = <<>> THEN s ELSE ApplyAll(Apply(s, Head(us)), Tail(us))

RECURSIVE Flatten(_)
Flatten(q) == IF q = <<>> THEN <<>> ELSE Head(q) \o Flatten(Tail(q))

\* The hook values once every update queued in q has been applied.
Rendered(q) == ApplyAll(Hooks, Flatten(q))

\* The stroke list and draw buffer as of every event handled so far.
LogicalStrokes == Rendered(pending).strokes
LogicalBuffer == Rendered(pending).currentStroke
\* Whether applying the queued updates leaves a stroke list at all.
LogicalListOk == ~Rendered(pending).undef /\ ~Rendered(pending).threw

\* A render of the queue q: the hooks take their new values, and
\* useEffect(() => redrawCanvas(), [strokes]) repaints when the list was set.
\* An updater called on undefined throws in the render; an undefined list makes
\* the effect throw after its clearRect.  Either uncaught error unmounts the
\* component; strokes = <<>> then stands for a list that is no more.
RenderWith(q) ==
    LET s == Rendered(q)
    IN  /\ pending' = <<>>
        /\ isDrawing' = s.isDrawing
        /\ currentStroke' = s.currentStroke
        /\ fillColor' = s.fillColor
        /\ isDragging' = s.isDragging
        /\ draggedStrokeIndex' = s.draggedStrokeIndex
        /\ dragOffset' = s.dragOffset
        /\ IF s.threw \/ s.undef
           THEN /\ mounted' = FALSE
                /\ strokes' = <<>>
                /\ canvas' = IF ~s.threw /\ surface = "ok" THEN ClearRect(canvas)
                             ELSE canvas
           ELSE /\ mounted' = TRUE
                /\ strokes' = s.strokes
                /\ canvas' = IF s.strokesSet
                             THEN RedrawCanvas(canvas, s.strokes, surface)
                             ELSE canvas

\* A discrete event's handler has queued batch: rendered before the event ends.
\* A handler that set nothing schedules no render.
Discrete(batch) ==
    IF batch = <<>> THEN UNCHANGED <<hookVars, pending, canvas, mounted>>
    ELSE RenderWith(Append(pending, batch))

\* A continuous event's handler has queued batch: it waits for a render.
Continuous(batch) ==
    /\ pending' = IF batch = <<>> THEN pending ELSE Append(pending, batch)
    /\ UNCHANGED <<hookVars, mounted>>

Set(name, val) == [set |-> name, val |-> val]

\* An input event is handled: the component is mounted, the run has room.
Event ==
    /\ mounted
    /\ events < MaxEvents
    /\ events' = events + 1

\* ------------------------------------------------------------- mouse handlers
\* The updates handleMouseDown queues at offsetX = x, offsetY = y.
MouseDownBatch(x, y) ==
    LET clickedStrokeIndex == FindClickedStrokeIndex(strokes, x, y, surface)
    IN  IF clickedStrokeIndex # NoIndex
        THEN LET stroke == strokes[clickedStrokeIndex + 1]
             IN  <<Set("isDragging", TRUE),
                   Set("draggedStrokeIndex", clickedStrokeIndex),
                   Set("dragOffset",
                       Point(x - stroke.position.x, y - stroke.position.y))>>
        ELSE <<Set("currentStroke", <<Point(x, y)>>), Set("isDrawing", TRUE)>>

\* onMouseDown={handleMouseDown}
MouseDown(x, y) ==
    /\ Event
    /\ Discrete(MouseDownBatch(x, y))
    /\ UNCHANGED <<surface, saved, savedStrokes, load>>

\* A drag move that puts the stroke at the pointer, the grab offset dropped.
MouseDragToPointer(x, y) ==
    <<[set |-> "strokes.map", index |-> draggedStrokeIndex, val |-> Point(x, y)]>>

\* The update the drag branch of handleMouseMove queues.
MouseDragBatch(x, y) ==
    LET newPosition == Point(x - dragOffset.x, y - dragOffset.y)
    IN  <<[set |-> "strokes.map", index |-> draggedStrokeIndex, val |-> newPosition]>>

\* The live feedback of a draw move: one segment from the last point of the
\* closure's currentStroke to (x, y).  Without a context nothing is painted.
LiveFeedback(c, x, y, surf) ==
    IF surf # "ok" \/ currentStroke = <<>> THEN c
    ELSE [c EXCEPT !.lastSeg =
            [from |-> currentStroke[Len(currentStroke)], to |-> Point(x, y)]]

\* onMouseMove={handleMouseMove}
MouseMove(x, y) ==
    /\ Event
    /\ Len(pending) < MaxPending
    /\ IF isDragging /\ draggedStrokeIndex # NoIndex /\ dragOffset # NoOffset
       THEN /\ Continuous(MouseDragBatch(x, y))
            /\ UNCHANGED canvas
       ELSE IF isDrawing /\ surface # "nocanvas"
       THEN /\ Continuous(<<Set("currentStroke.append", Point(x, y))>>)
            /\ canvas' = LiveFeedback(canvas, x, y, surface)
       ELSE UNCHANGED <<hookVars, pending, canvas, mounted>>
    /\ UNCHANGED <<surface, saved, savedStrokes, load>>

\* A release that commits in the color the component started with.
MouseUpBatchFirstColor ==
    IF isDragging
    THEN <<Set("isDragging", FALSE), Set("draggedStrokeIndex", NoIndex),
           Set("dragOffset", NoOffset)>>
    ELSE IF isDrawing /\ Len(currentStroke) > 0
    THEN <<[set |-> "strokes.append", points |-> currentStroke, color |-> "#cdecde"],
           Set("currentStroke", <<>>), Set("isDrawing", FALSE)>>
    ELSE <<>>

\* The updates handleMouseUp queues.
MouseUpBatch ==
    IF isDragging
    THEN <<Set("isDragging", FALSE), Set("draggedStrokeIndex", NoIndex),
           Set("dragOffset", NoOffset)>>
    ELSE IF isDrawing /\ Len(currentStroke) > 0
    THEN <<[set |-> "strokes.append", points |-> currentStroke, color |-> fillColor],
           Set("currentStroke", <<>>), Set("isDrawing", FALSE)>>
    ELSE <<>>

\* onMouseUp={handleMouseUp}
MouseUp ==
    /\ Event
    /\ Discrete(MouseUpBatch)
    /\ UNCHANGED <<surface, saved, savedStrokes, load>>

\* onMouseLeave={handleMouseUp}
MouseLeave ==
    /\ Event
    /\ Len(pending) < MaxPending
    /\ Continuous(MouseUpBatch)
    /\ UNCHANGED <<canvas, surface, saved, savedStrokes, load>>

\* ------------------------------------------------------------- touch handlers
\* canvas.getBoundingClientRect(): where the page's layout has put the canvas.
Rects == {[left |-> 3, top |-> 5]}

\* The client coordinates that fall on the grid of a canvas at rect.
ClientXs(rect) == {x + rect.left : x \in Coord}
ClientYs(rect) == {y + rect.top : y \in Coord}

\* Local coordinates taken to be the client coordinates, the canvas origin
\* not subtracted.
TouchClient(rect, clientX, clientY) == Point(clientX, clientY)

\* touch.clientX - rect.left, touch.clientY - rect.top
TouchLocal(rect, clientX, clientY) == Point(clientX - rect.left, clientY - rect.top)

\* The updates handleTouchStart queues for the touch at (clientX, clientY).
TouchStartBatch(rect, clientX, clientY) ==
    LET x == TouchLocal(rect, clientX, clientY).x
        y == TouchLocal(rect, clientX, clientY).y
        clickedStrokeIndex == FindClickedStrokeIndex(strokes, x, y, surface)
    IN  IF clickedStrokeIndex # NoIndex
        THEN LET stroke == strokes[clickedStrokeIndex + 1]
             IN  <<Set("isDragging", TRUE),
                   Set("draggedStrokeIndex", clickedStrokeIndex),
                   Set("dragOffset",
                       Point(x - stroke.position.x, y - stroke.position.y))>>
        ELSE <<Set("currentStroke", <<Point(x, y)>>), Set("isDrawing", TRUE)>>

\* onTouchStart={handleTouchStart}
TouchStart(rect, clientX, clientY) ==
    /\ Event
    /\ IF surface = "nocanvas"
       THEN UNCHANGED <<hookVars, pending, canvas, mounted>>
       ELSE Discrete(TouchStartBatch(rect, clientX, clientY))
    /\ UNCHANGED <<surface, saved, savedStrokes, load>>

\* The update the drag branch of handleTouchMove queues.
TouchDragBatch(rect, clientX, clientY) ==
    LET x == TouchLocal(rect, clientX, clientY).x
        y == TouchLocal(rect, clientX, clientY).y
        newPosition == Point(x - dragOffset.x, y - dragOffset.y)
    IN  <<[set |-> "strokes.map", index |-> draggedStrokeIndex, val |-> newPosition]>>

\* onTouchMove={handleTouchMove}
TouchMove(rect, clientX, clientY) ==
    /\ Event
    /\ Len(pending) < MaxPending
    /\ IF isDragging /\ draggedStrokeIndex # NoIndex /\ dragOffset # NoOffset
       THEN /\ Continuous(IF surface = "nocanvas" THEN <<>>
                          ELSE TouchDragBatch(rect, clientX, clientY))
            /\ UNCHANGED canvas
       ELSE IF isDrawing /\ surface # "nocanvas"
       THEN LET p == TouchLocal(rect, clientX, clientY)
            IN  /\ Continuous(<<Set("currentStroke.append", p)>>)
                /\ canvas' = LiveFeedback(canvas, p.x, p.y, surface)
       ELSE UNCHANGED <<hookVars, pending, canvas, mounted>>
    /\ UNCHANGED <<surface, saved, savedStrokes, load>>

\* The updates handleTouchEnd queues.
TouchEndBatch ==
    IF isDragging
    THEN <<Set("isDragging", FALSE), Set("draggedStrokeIndex", NoIndex),
           Set("dragOffset", NoOffset)>>
    ELSE IF isDrawing /\ Len(currentStroke) > 0
    THEN <<[set |-> "strokes.append", points |-> currentStroke, color |-> fillColor],
           Set("currentStroke", <<>>), Set("isDrawing", FALSE)>>
    ELSE <<>>

\* onTouchEnd={handleTouchEnd}
TouchEnd ==
    /\ Event
    /\ Discrete(TouchEndBatch)
    /\ UNCHANGED <<surface, saved, savedStrokes, load>>

\* The scheduled render of the queued updates.
Render ==
    /\ mounted
    /\ pending # <<>>
    /\ RenderWith(pending)
    /\ UNCHANGED <<surface, saved, savedStrokes, load, events>>

\* ------------------------------------------------------------- buttons
\* <button onClick={() => setStrokes((prev) => prev.slice(0, -1))}>Undo
Undo ==
    /\ Event
    /\ Discrete(<<[set |-> "strokes.slice"]>>)
    /\ UNCHANGED <<surface, saved, savedStrokes, load>>

\* <input type="color" onChange={(e) => setFillColor(e.target.value)}>
SetFillColor(color) ==
    /\ Event
    /\ Discrete(<<Set("fillColor", color)>>)
    /\ UNCHANGED <<surface, saved, savedStrokes, load>>

\* ------------------------------------------------------------- file format
\* The text of a .draw file, as the sequence of its JSON tokens.  A number is
\* written in decimal, sign first.
Punct(c) == [k |-> "punct", v |-> c]
Key(name) == [k |-> "key", v |-> name]
Str(text) == [k |-> "string", v |-> text]

RECURSIVE Digits(_)
Digits(n) == IF n < 10 THEN <<n>> ELSE Append(Digits(n \div 10), n % 10)

RECURSIVE FromDigits(_)
FromDigits(ds) ==
    IF Len(ds) = 0 THEN 0
    ELSE 10 * FromDigits(SubSeq(ds, 1, Len(ds) - 1)) + ds[Len(ds)]

\* A number written without its sign.
NumUnsigned(n) ==
    [k |-> "number", neg |-> FALSE, digits |-> Digits(IF n < 0 THEN -n ELSE n)]

\* JSON.stringify of an integer.
Num(n) == [k |-> "number", neg |-> n < 0, digits |-> Digits(IF n < 0 THEN -n ELSE n)]

\* JSON.parse of a number token.
NumValue(t) == IF t.neg THEN -FromDigits(t.digits) ELSE FromDigits(t.digits)

StringifyPoint(p) ==
    <<Punct("{"), Key("x"), Num(p.x), Key("y"), Num(p.y), Punct("}")>>

RECURSIVE StringifyPoints(_)
StringifyPoints(ps) ==
    IF ps = <<>> THEN <<>> ELSE StringifyPoint(Head(ps)) \o StringifyPoints(Tail(ps))

StringifyStroke(st) ==
    <<Punct("{"), Key("points"), Punct("[")>> \o StringifyPoints(st.points)
        \o <<Punct("]"), Key("color"), Str(st.color), Key("position")>>
        \o StringifyPoint(st.position) \o <<Punct("}")>>

RECURSIVE StringifyStrokes(_)
StringifyStrokes(list) ==
    IF list = <<>> THEN <<>>
    ELSE StringifyStroke(Head(list)) \o StringifyStrokes(Tail(list))

\* JSON.stringify({ backgroundImage, strokes })
Stringify(backgroundImage, list) ==
    <<Punct("{"), Key("backgroundImage"), Str(backgroundImage), Key("strokes"),
      Punct("[")>> \o StringifyStrokes(list) \o <<Punct("]"), Punct("}")>>

\* The parsers return [ok, val, rest]: whether a value was read at the head of
\* the tokens t, the value, and the tokens after it.
Fail == [ok |-> FALSE, val |-> <<>>, rest |-> <<>>]
IsTok(t, i, tok) == Len(t) >= i /\ t[i] = tok
IsKind(t, i, kind) == Len(t) >= i /\ t[i].k = kind
Drop(t, n) == SubSeq(t, n + 1, Len(t))

ParsePoint(t) ==
    IF /\ IsTok(t, 1, Punct("{")) /\ IsTok(t, 2, Key("x")) /\ IsKind(t, 3, "number")
       /\ IsTok(t, 4, Key("y")) /\ IsKind(t, 5, "number") /\ IsTok(t, 6, Punct("}"))
    THEN [ok |-> TRUE, val |-> Point(NumValue(t[3]), NumValue(t[5])), rest |-> Drop(t, 6)]
    ELSE Fail

\* The points after "[", up to and including "]".
RECURSIVE ParsePoints(_)
ParsePoints(t) ==
    IF IsTok(t, 1, Punct("]")) THEN [ok |-> TRUE, val |-> <<>>, rest |-> Drop(t, 1)]
    ELSE LET p == ParsePoint(t)
         IN  IF ~p.ok THEN Fail
             ELSE LET more == ParsePoints(p.rest)
                  IN  IF ~more.ok THEN Fail
                      ELSE [more EXCEPT !.val = <<p.val>> \o more.val]

ParseStroke(t) ==
    IF ~(IsTok(t, 1, Punct("{")) /\ IsTok(t, 2, Key("points")) /\ IsTok(t, 3, Punct("[")))
    THEN Fail
    ELSE LET ps == ParsePoints(Drop(t, 3))
         IN  IF ~(ps.ok /\ IsTok(ps.rest, 1, Key("color")) /\ IsKind(ps.rest, 2, "string")
                  /\ IsTok(ps.rest, 3, Key("position")))
             THEN Fail
             ELSE LET pos == ParsePoint(Drop(ps.rest, 3))
                  IN  IF ~(pos.ok /\ IsTok(pos.rest, 1, Punct("}"))) THEN Fail
                      ELSE [ok |-> TRUE,
                            val |-> [points |-> ps.val, color |-> ps.rest[2].v,
                                     position |-> pos.val],
                            rest |-> Drop(pos.rest, 1)]

\* The strokes after "[", up to and including "]".
RECURSIVE ParseStrokes(_)
ParseStrokes(t) ==
    IF IsTok(t, 1, Punct("]")) THEN [ok |-> TRUE, val |-> <<>>, rest |-> Drop(t, 1)]
    ELSE LET st == ParseStroke(t)
         IN  IF ~st.ok THEN Fail
             ELSE LET more == ParseStrokes(st.rest)
                  IN  IF ~more.ok THEN Fail
                      ELSE [more EXCEPT !.val = <<st.val>> \o more.val]

\* const { backgroundImage, strokes: loadedStrokes } = JSON.parse(text), for the
\* texts a load is given here: ok is FALSE when JSON.parse throws; a field the
\* record lacks is undefined (hasImage / hasStrokes FALSE).
ParseDocument(t) ==
    LET bad == [ok |-> FALSE, hasImage |-> FALSE, image |-> "", hasStrokes |-> FALSE,
                strokes |-> <<>>]
        hasImage == IsTok(t, 2, Key("backgroundImage")) /\ IsKind(t, 3, "string")
        afterImage == IF hasImage THEN Drop(t, 3) ELSE Drop(t, 1)
        hasStrokes == IsTok(afterImage, 1, Key("strokes")) /\ IsTok(afterImage, 2, Punct("["))
        list == IF hasStrokes THEN ParseStrokes(Drop(afterImage, 2)) ELSE Fail
        afterStrokes == IF hasStrokes THEN list.rest ELSE afterImage
    IN  IF ~IsTok(t, 1, Punct("{")) THEN bad
        ELSE IF hasStrokes /\ ~list.ok THEN bad
        ELSE IF afterStrokes # <<Punct("}")>> THEN bad
        ELSE [ok |-> TRUE, hasImage |-> hasImage,
              image |-> IF hasImage THEN t[3].v ELSE "",
              hasStrokes |-> hasStrokes,
              strokes |-> IF hasStrokes THEN list.val ELSE <<>>]

\* ------------------------------------------------------------- save and load
\* saveAsCustomFormat: the downloaded file holds the stroke list of the closure.
SaveAsCustomFormat ==
    /\ Event
    /\ IF surface = "nocanvas"
       THEN UNCHANGED <<saved, savedStrokes>>
       ELSE /\ saved' = Stringify(ToDataURL(canvas), strokes)
            /\ savedStrokes' = strokes
    /\ UNCHANGED <<hookVars, pending, canvas, surface, load, mounted>>

NoLoad == [stage |-> "idle", text |-> <<>>, snap |-> <<>>, src |-> ""]

\* A drawing saved in an earlier session: two filled triangles.  On the grid
\* the first holds (0,0) inside and (1,0) on its edge, the second holds (1,0)
\* and (1,1) on its edge, and neither holds (0,1).
SampleStrokes ==
    <<[points |-> <<Point(-1, -1), Point(3, -1), Point(-1, 1), Point(-1, -1)>>,
       color |-> "#cdecde", position |-> Point(0, 0)],
      [points |-> <<Point(0, -12), Point(20, -1), Point(0, 1), Point(0, -12)>>,
       color |-> "#ff0000", position |-> Point(1, 1)]>>

\* The text of that drawing, token by token as it lies in the file.
Pos(digits) == [k |-> "number", neg |-> FALSE, digits |-> digits]
Neg(digits) == [k |-> "number", neg |-> TRUE, digits |-> digits]
PointText(x, y) == <<Punct("{"), Key("x"), x, Key("y"), y, Punct("}")>>
StrokeText(points, color, position) ==
    <<Punct("{"), Key("points"), Punct("[")>> \o points
        \o <<Punct("]"), Key("color"), Str(color), Key("position")>> \o position
        \o <<Punct("}")>>
SampleFile ==
    <<Punct("{"), Key("backgroundImage"), Str("data:image/png"), Key("strokes"),
      Punct("[")>>
        \o StrokeText(PointText(Neg(<<1>>), Neg(<<1>>)) \o PointText(Pos(<<3>>), Neg(<<1>>))
                        \o PointText(Neg(<<1>>), Pos(<<1>>))
                        \o PointText(Neg(<<1>>), Neg(<<1>>)),
                      "#cdecde", PointText(Pos(<<0>>), Pos(<<0>>)))
        \o StrokeText(PointText(Pos(<<0>>), Neg(<<1, 2>>)) \o PointText(Pos(<<2, 0>>), Neg(<<1>>))
                        \o PointText(Pos(<<0>>), Pos(<<1>>))
                        \o PointText(Pos(<<0>>), Neg(<<1, 2>>)),
                      "#ff0000", PointText(Pos(<<1>>), Pos(<<1>>)))
        \o <<Punct("]"), Punct("}")>>

\* Texts that are no record this program wrote: an empty file, a record without
\* strokes, a text cut short, and a record without backgroundImage.
EmptyFile == <<>>
NoStrokesFile == <<Punct("{"), Key("backgroundImage"), Str("data:image/png"), Punct("}")>>
Truncated(t) == SubSeq(t, 1, Len(t) - 1)
WithoutImage(t) == <<t[1]>> \o Drop(t, 3)

\* The files the file input can be given.
Files ==
    {EmptyFile, NoStrokesFile, SampleFile, Truncated(SampleFile), WithoutImage(SampleFile)}
        \cup (IF saved = <<>> THEN {} ELSE {saved})

\* loadCustomFormat(file): the reader starts; its callbacks are closures of this
\* render, so the redrawCanvas they call paints this render's stroke list.
LoadCustomFormat(text) ==
    /\ Event
    /\ load.stage = "idle"
    /\ load' = [stage |-> "reading", text |-> text, snap |-> strokes, src |-> ""]
    /\ UNCHANGED <<hookVars, pending, canvas, surface, saved, savedStrokes, mounted>>

\* reader.onload
ReaderOnload ==
    /\ mounted
    /\ load.stage = "reading"
    /\ Len(pending) < MaxPending
    /\ LET doc == ParseDocument(load.text)
       IN  IF load.text = EmptyFile \/ ~doc.ok
           THEN /\ load' = NoLoad
                /\ UNCHANGED pending
           ELSE /\ pending' = Append(pending,
                       <<[set |-> "strokes", isList |-> doc.hasStrokes, val |-> doc.strokes]>>)
                /\ load' = IF surface = "ok" /\ doc.hasImage
                           THEN [load EXCEPT !.stage = "decoding", !.src = doc.image]
                           ELSE NoLoad
    /\ UNCHANGED <<hookVars, canvas, surface, saved, savedStrokes, mounted, events>>

\* img.onload
ImgOnload ==
    /\ mounted
    /\ load.stage = "decoding"
    /\ canvas' = RedrawCanvas(DrawImage(ClearRect(canvas), load.src), load.snap, surface)
    /\ load' = NoLoad
    /\ UNCHANGED <<hookVars, pending, surface, saved, savedStrokes, mounted, events>>

\* ------------------------------------------------------------- specification
Init ==
    /\ isDrawing = FALSE
    /\ strokes = <<>>
    /\ currentStroke = <<>>
    /\ fillColor = "#cdecde"
    /\ isDragging = FALSE
    /\ draggedStrokeIndex = NoIndex
    /\ dragOffset = NoOffset
    /\ pending = <<>>
    /\ canvas = [bg |-> "blank", drawn |-> <<>>, lastSeg |-> NoSegment]
    /\ surface = "ok"
    /\ saved = <<>>
    /\ savedStrokes = <<>>
    /\ load = NoLoad
    /\ mounted = TRUE
    /\ events = 0

Next ==
    \/ \E x \in Coord, y \in Coord : MouseDown(x, y)
    \/ \E x \in Coord, y \in Coord : MouseMove(x, y)
    \/ MouseUp
    \/ MouseLeave
    \/ \E rect \in Rects :
         \E clientX \in ClientXs(rect), clientY \in ClientYs(rect) :
            TouchStart(rect, clientX, clientY)
    \/ \E rect \in Rects :
         \E clientX \in ClientXs(rect), clientY \in ClientYs(rect) :
            TouchMove(rect, clientX, clientY)
    \/ TouchEnd
    \/ Undo
    \/ \E color \in Colors : SetFillColor(color)
    \/ SaveAsCustomFormat
    \/ \E text \in Files : LoadCustomFormat(text)
    \/ ReaderOnload
    \/ ImgOnload
    \/ Render

Spec == Init /\ [][Next]_vars


\* ------------------------------------------------------------- properties
\* The steps of the pointer events, mouse or touch, at local point (x, y).
DownStep(x, y) ==
    \/ MouseDown(x, y)
    \/ \E rect \in Rects : TouchStart(rect, x + rect.left, y + rect.top)
MoveStep(x, y) ==
    \/ MouseMove(x, y)
    \/ \E rect \in Rects : TouchMove(rect, x + rect.left, y + rect.top)
EndStep == MouseUp \/ MouseLeave \/ TouchEnd

\* The handlers' view of the session they are in.
Dragging == isDragging /\ draggedStrokeIndex # NoIndex /\ dragOffset # NoOffset
Idle ==
    /\ ~isDrawing /\ ~isDragging /\ currentStroke = <<>>
    /\ draggedStrokeIndex = NoIndex /\ dragOffset = NoOffset

\* Whether stroke st, shifted by its position, contains (x, y).
Contains(st, x, y) == IsPointInPath(Shift(st.points, st.position), Point(x, y))

\* C1 (as claimed): a pointer-up, pointer-leave or touch-end that ends a draw
\* session whose buffer holds one point leaves the length of the stroke list
\* unchanged; with two or more points it appends exactly one stroke, at
\* position {0,0}.
C1_CommitGate ==
    [][EndStep /\ isDrawing /\ ~isDragging /\ LogicalListOk =>
        IF Len(LogicalBuffer) >= 2
        THEN /\ Len(LogicalStrokes') = Len(LogicalStrokes) + 1
             /\ SubSeq(LogicalStrokes', 1, Len(LogicalStrokes)) = LogicalStrokes
             /\ LogicalStrokes'[Len(LogicalStrokes')].position = Point(0, 0)
        ELSE Len(LogicalStrokes') = Len(LogicalStrokes)]_vars

\* C2 (as claimed): isDrawing and isDragging are never both true.
C2_MutualExclusion == ~(isDrawing /\ isDragging)

\* Lists a and b agree in length and order, and stroke by stroke in points and
\* color, and in position everywhere but at the 0-based index.
SameButPosition(a, b, index) ==
    /\ Len(a) = Len(b)
    /\ \A i \in 1..Len(a) :
        /\ a[i].points = b[i].points
        /\ a[i].color = b[i].color
        /\ i - 1 # index => a[i].position = b[i].position

\* C3: a pointer-move or touch-move handled while Dragging changes nothing of
\* the stroke list but the position of the stroke at draggedStrokeIndex.
C3_DragFrame ==
    [][\A x \in Coord, y \in Coord :
        MoveStep(x, y) /\ Dragging /\ LogicalListOk =>
            SameButPosition(LogicalStrokes, LogicalStrokes', draggedStrokeIndex)]_vars

\* C3 witness: the second stroke of the loaded sample is being dragged and a
\* rendered move has taken it to another position, its points as they were.
C3_Witness ==
    /\ Dragging /\ draggedStrokeIndex = 1 /\ pending = <<>>
    /\ Len(strokes) = 2
    /\ strokes[1] = SampleStrokes[1]
    /\ strokes[2].points = SampleStrokes[2].points
    /\ strokes[2].position # SampleStrokes[2].position

\* C4: a pointer-down at (x, y) enters Dragging on the last stroke of the list
\* that contains (x, y), and enters Drawing with buffer [(x, y)] when none does.
C4_HitTestPrecedence ==
    [][\A x \in Coord, y \in Coord :
        DownStep(x, y) /\ mounted' =>
            LET hits == {i \in 1..Len(strokes) : Contains(strokes[i], x, y)}
            IN  IF hits # {}
                THEN /\ isDragging'
                     /\ \A i \in hits : draggedStrokeIndex' >= i - 1
                     /\ draggedStrokeIndex' + 1 \in hits
                ELSE /\ isDrawing'
                     /\ currentStroke' = <<Point(x, y)>>]_vars

\* C4 witness: after a pointer-down at (1,0), which both strokes of the sample
\* contain, the second one is the dragged one.
C4_Witness ==
    /\ strokes = SampleStrokes
    /\ Contains(strokes[1], 1, 0) /\ Contains(strokes[2], 1, 0)
    /\ isDragging /\ draggedStrokeIndex = 1 /\ dragOffset = Point(0, -1)

\* C5: undo removes exactly the last stroke of a non-empty list, the earlier
\* ones staying as they are and in order, and leaves an empty list empty.
C5_Undo ==
    [][Undo /\ LogicalListOk =>
        /\ mounted'
        /\ Len(strokes') = Max(Len(LogicalStrokes) - 1, 0)
        /\ \A i \in 1..Len(strokes') : strokes'[i] = LogicalStrokes[i]]_vars

\* C5 witness: of the two strokes of the loaded sample, undo has left the first.
C5_Witness == strokes = <<SampleStrokes[1]>> /\ mounted /\ pending = <<>>


\* C6: loading the text that save produced from stroke list S sets the stroke
\* list to S: the same strokes in the same order, each with its points, color
\* and position.
C6_RoundTrip ==
    [][ReaderOnload /\ saved # <<>> /\ load.text = saved =>
        /\ LogicalListOk'
        /\ LogicalStrokes' = savedStrokes]_vars

\* C6 witness: the saved text has been read back while the list held something
\* else (load.snap), and the list is the saved one again.
C6_Witness ==
    /\ saved # <<>> /\ savedStrokes = SampleStrokes
    /\ load.stage = "decoding" /\ load.text = saved
    /\ load.snap # savedStrokes
    /\ strokes = savedStrokes /\ pending = <<>>

\* C7: a touch event with the local coordinates of a mouse event takes the
\* component to the same state: every mouse step is the touch step with those
\* coordinates and conversely, for down/start, move/move and up/end.
C7_TouchPointerEquivalence ==
    [][/\ \A x \in Coord, y \in Coord : \A rect \in Rects :
            /\ MouseDown(x, y) <=> TouchStart(rect, x + rect.left, y + rect.top)
            /\ MouseMove(x, y) <=> TouchMove(rect, x + rect.left, y + rect.top)
       /\ MouseUp <=> TouchEnd]_vars

\* C7 witness: a draw session that a down and a move have brought to two
\* buffered points.
C7_Witness == isDrawing /\ ~isDragging /\ Len(currentStroke) = 2 /\ pending = <<>>

\* A text that cannot be parsed, or whose record lacks strokes or backgroundImage.
Malformed(text) ==
    LET doc == ParseDocument(text)
    IN  ~doc.ok \/ ~doc.hasStrokes \/ ~doc.hasImage

\* C8 (as claimed): the load of a malformed record is aborted, and leaves the
\* stroke list and the canvas as they were.
C8_LoadAllOrNothing ==
    [][ReaderOnload /\ Malformed(load.text) /\ LogicalListOk =>
        /\ load'.stage = "idle"
        /\ LogicalListOk'
        /\ LogicalStrokes' = LogicalStrokes
        /\ canvas' = canvas]_vars

\* Idle, of the hook values s.
IdleIn(s) ==
    /\ ~s.isDrawing /\ ~s.isDragging /\ s.currentStroke = <<>>
    /\ s.draggedStrokeIndex = NoIndex /\ s.dragOffset = NoOffset

\* C9 (as claimed): once a pointer-up, pointer-leave or touch-end is handled,
\* the interpreter is Idle.
C9_SessionEndIdle == [][EndStep => IdleIn(Rendered(pending))']_vars

\* C10: a move handled while Dragging puts the dragged stroke at pointer minus
\* dragOffset, and a pointer-down that hits a stroke sets dragOffset to the
\* pointer minus that stroke's position.
C10_RigidDrag ==
    [][\A x \in Coord, y \in Coord :
        /\ MoveStep(x, y) /\ Dragging /\ LogicalListOk
              /\ draggedStrokeIndex < Len(LogicalStrokes) =>
            LogicalStrokes'[draggedStrokeIndex + 1].position =
                Point(x - dragOffset.x, y - dragOffset.y)
        /\ DownStep(x, y) /\ mounted'
              /\ (\E i \in 1..Len(strokes) : Contains(strokes[i], x, y)) =>
            LET stroke == strokes[draggedStrokeIndex' + 1]
            IN  dragOffset' = Point(x - stroke.position.x, y - stroke.position.y)]_vars

\* C10 witness: the first stroke of the sample, grabbed at (0,0), has followed
\* the pointer to (1,1).
C10_Witness ==
    /\ Dragging /\ draggedStrokeIndex = 0 /\ dragOffset = Point(0, 0)
    /\ Len(strokes) = 2 /\ strokes[1].points = SampleStrokes[1].points
    /\ strokes[1].position = Point(1, 1) /\ pending = <<>>

\* ------------------------------------------------------------- closed paths
\* The longest point sequence of the closure test's inputs.
MaxPathLen == 3

\* End points at gaps around the threshold: 0, below 10 (7,7), (-3,-9), exactly
\* 10 (6,8), (10,0), and above (8,7).
GapPoints ==
    {Point(0, 0), Point(7, 7), Point(-3, -9), Point(6, 8), Point(10, 0), Point(8, 7)}
Paths == UNION {[1..n -> GapPoints] : n \in 0..MaxPathLen}

\* The component holding one stroke, of any points and position, that the
\* effect is about to paint.
InitClosed ==
    /\ isDrawing = FALSE
    /\ strokes \in {<<[points |-> ps, color |-> "#ff0000", position |-> pos]>> :
                        ps \in Paths, pos \in {Point(0, 0), Point(5, 40)}}
    /\ currentStroke = <<>>
    /\ fillColor = "#cdecde"
    /\ isDragging = FALSE
    /\ draggedStrokeIndex = NoIndex
    /\ dragOffset = NoOffset
    /\ pending = <<>>
    /\ canvas = [bg |-> "blank", drawn |-> <<>>, lastSeg |-> NoSegment]
    /\ surface = "ok"
    /\ saved = <<>>
    /\ savedStrokes = <<>>
    /\ load = NoLoad
    /\ mounted = TRUE
    /\ events = 0

\* useEffect(() => { redrawCanvas(); }, [strokes])
RedrawEffect ==
    /\ events = 0
    /\ events' = 1
    /\ canvas' = RedrawCanvas(canvas, strokes, surface)
    /\ UNCHANGED <<hookVars, pending, surface, saved, savedStrokes, load, mounted>>

SpecClosed == InitClosed /\ [][RedrawEffect]_vars

\* Whether the first and last of points lie less than 10 apart, on the squares.
GapBelowTen(points) ==
    LET dx == points[Len(points)].x - points[1].x
        dy == points[Len(points)].y - points[1].y
    IN  dx * dx + dy * dy < 10 * 10

\* C11: isClosedPath(P) is true iff P has two or more points and the squared
\* distance from its first to its last point is below 10^2, so false for fewer
\* than two points; and a full redraw fills a stroke iff its unshifted points
\* pass that test, whatever its position.
C11_ClosedPathRule ==
    \A i \in 1..Len(strokes) :
        LET P == strokes[i].points
        IN  /\ IsClosedPath(P) <=> (Len(P) >= 2 /\ GapBelowTen(P))
            /\ Len(P) < 2 => ~IsClosedPath(P)
            /\ events = 1 =>
                  /\ Len(canvas.drawn) = Len(strokes)
                  /\ canvas.drawn[i].fill # "none" <=> (Len(P) >= 2 /\ GapBelowTen(P))

\* C11 witness: a redraw has left unfilled a stroke whose ends lie exactly 10
\* apart, the stroke shifted away from the origin.
C11_Witness ==
    /\ events = 1 /\ Len(strokes) = 1
    /\ strokes[1].points = <<Point(0, 0), Point(7, 7), Point(6, 8)>>
    /\ strokes[1].position = Point(5, 40)
    /\ canvas.drawn = <<[path |-> <<Point(5, 40), Point(12, 47), Point(11, 48)>>,
                         fill |-> "none"]>>

\* ------------------------------------------------------------- missing surface
\* The component before its canvas (canvasRef.current) or the canvas's 2D
\* context (getContext("2d")) is there.
InitSurface ==
    /\ isDrawing = FALSE
    /\ strokes = <<>>
    /\ currentStroke = <<>>
    /\ fillColor = "#cdecde"
    /\ isDragging = FALSE
    /\ draggedStrokeIndex = NoIndex
    /\ dragOffset = NoOffset
    /\ pending = <<>>
    /\ canvas = [bg |-> "blank", drawn |-> <<>>, lastSeg |-> NoSegment]
    /\ surface \in {"noctx", "nocanvas"}
    /\ saved = <<>>
    /\ savedStrokes = <<>>
    /\ load = NoLoad
    /\ mounted = TRUE
    /\ events = 0

\* The canvas and its context become available.
SurfaceAttached ==
    /\ surface # "ok"
    /\ surface' = "ok"
    /\ UNCHANGED <<hookVars, pending, canvas, saved, savedStrokes, load, mounted, events>>

\* The files that hold a stroke list, or no record at all.
ListFiles == Files \ {NoStrokesFile}

NextSurface ==
    \/ \E x \in Coord, y \in Coord : MouseDown(x, y)
    \/ \E x \in Coord, y \in Coord : MouseMove(x, y)
    \/ MouseUp
    \/ MouseLeave
    \/ \E rect \in Rects :
         \E clientX \in ClientXs(rect), clientY \in ClientYs(rect) :
            TouchStart(rect, clientX, clientY)
    \/ \E rect \in Rects :
         \E clientX \in ClientXs(rect), clientY \in ClientYs(rect) :
            TouchMove(rect, clientX, clientY)
    \/ TouchEnd
    \/ Undo
    \/ \E color \in Colors : SetFillColor(color)
    \/ SaveAsCustomFormat
    \/ \E text \in ListFiles : LoadCustomFormat(text)
    \/ ReaderOnload
    \/ ImgOnload
    \/ Render
    \/ SurfaceAttached

SpecSurface == InitSurface /\ [][NextSurface]_vars

\* The three drag hooks of s agree, and a draw session of s has its buffer.
Sound(s) ==
    /\ s.isDragging <=> s.draggedStrokeIndex # NoIndex
    /\ s.isDragging <=> s.dragOffset # NoOffset
    /\ s.isDrawing => s.currentStroke # <<>>
    /\ ~s.undef /\ ~s.threw

C13_LoadKeepsBackground ==
    [][ImgOnload =>
        /\ canvas'.bg = load.src
        /\ canvas'.drawn = Paint(ParseDocument(load.text).strokes)]_vars

\* C14 (as claimed): when no update waits for a render and no load is in
\* flight, the strokes on the canvas are the stroke list, in its order, each at
\* points + position.
C14_RenderAgreesWithStore ==
    mounted /\ pending = <<>> /\ load.stage = "idle" => canvas.drawn = Paint(strokes)

\* ------------------------------------------------------------- draw sessions
\* C15 (as claimed): the stroke appended when a draw session ends holds the
\* pointer-down point followed by every move point handled since, in order,
\* and the fill color selected at release; the points handled so far are the
\* buffer with every queued append applied.
C15_CommittedContent ==
    [][EndStep /\ isDrawing /\ ~isDragging /\ LogicalListOk
            /\ Rendered(pending).isDrawing
            /\ Len(LogicalStrokes') = Len(LogicalStrokes) + 1 =>
        LET stroke == LogicalStrokes'[Len(LogicalStrokes')]
        IN  /\ stroke.points = LogicalBuffer
            /\ stroke.color = Rendered(pending).fillColor]_vars

\* C16 (as claimed): a move handled while Drawing draws one segment, from the
\* last point of the buffer as every earlier move of the session left it to the
\* new point.
C16_FeedbackContinuity ==
    [][\A x \in Coord, y \in Coord :
        MoveStep(x, y) /\ isDrawing /\ ~Dragging /\ Rendered(pending).isDrawing
              /\ LogicalBuffer # <<>> =>
            canvas'.lastSeg =
                [from |-> LogicalBuffer[Len(LogicalBuffer)], to |-> Point(x, y)]]_vars

\* ------------------------------------------------------------- stroke fields
\* C17: a stroke is appended at position {0,0}, and the position of a stroke
\* of the list changes only in a move handled while Dragging with
\* draggedStrokeIndex at that stroke; no other step but the load, which
\* replaces the list, changes a position.
C17_PositionProvenance ==
    [][LogicalListOk /\ LogicalListOk' /\ ~ReaderOnload =>
        /\ \A i \in 1..Min(Len(LogicalStrokes), Len(LogicalStrokes')) :
              LogicalStrokes'[i].position # LogicalStrokes[i].position =>
                /\ Dragging /\ draggedStrokeIndex = i - 1
                /\ \E x \in Coord, y \in Coord : MoveStep(x, y)
        /\ Len(LogicalStrokes') > Len(LogicalStrokes) =>
              /\ EndStep
              /\ LogicalStrokes'[Len(LogicalStrokes')].position = Point(0, 0)]_vars

\* C17 witness: a stroke drawn from (0,0) to (1,0) was committed at position
\* {0,0} and has been grabbed by a pointer-down, no move handled yet.
C17_Witness ==
    /\ Len(strokes) = 1 /\ strokes[1].points = <<Point(0, 0), Point(1, 0)>>
    /\ strokes[1].position = Point(0, 0)
    /\ Dragging /\ draggedStrokeIndex = 0 /\ pending = <<>>

\* C18 (as claimed): the draw buffer is empty whenever isDrawing is false and
\* holds at least the pointer-down point whenever isDrawing is true.
C18_BufferLifetime ==
    /\ ~isDrawing => currentStroke = <<>>
    /\ isDrawing => Len(currentStroke) >= 1

\* ------------------------------------------------------------- drag target
\* C19 (as claimed): while Dragging, draggedStrokeIndex is an index of the
\* stroke list, and from step to step of one drag the stroke at it keeps its
\* points and color: it is the stroke that was hit.
C19_ValidDragTarget ==
    [][mounted' /\ isDragging' =>
        /\ 0 <= draggedStrokeIndex' /\ draggedStrokeIndex' < Len(strokes')
        /\ isDragging /\ draggedStrokeIndex' = draggedStrokeIndex
              /\ draggedStrokeIndex < Len(strokes) =>
            /\ strokes'[draggedStrokeIndex + 1].points = strokes[draggedStrokeIndex + 1].points
            /\ strokes'[draggedStrokeIndex + 1].color = strokes[draggedStrokeIndex + 1].color]_vars

\* C20: no step but the load, which replaces the list, changes the color of a
\* stroke of the list, a change of the fill color included; a stroke is
\* appended in the fill color selected when its session ends.
C20_ColorFixedAtCommit ==
    [][LogicalListOk /\ LogicalListOk' /\ ~ReaderOnload =>
        /\ \A i \in 1..Min(Len(LogicalStrokes), Len(LogicalStrokes')) :
              LogicalStrokes'[i].color = LogicalStrokes[i].color
        /\ Len(LogicalStrokes') > Len(LogicalStrokes) =>
              LogicalStrokes'[Len(LogicalStrokes')].color = fillColor]_vars

\* C20 witness: a stroke drawn and committed while "#ff0000" was selected is
\* still "#ff0000" after the fill color was changed back.
C20_Witness ==
    /\ Len(strokes) = 1 /\ strokes[1].points = <<Point(0, 0)>>
    /\ strokes[1].color = "#ff0000" /\ fillColor = "#cdecde"
    /\ pending = <<>> /\ mounted

=============================================================================
